---------------------------- MODULE Spec2Model ----------------------------
(***************************************************************************)
(* PyCompressCloud.py: the codec registry, the file transcoder             *)
(* (compress_file / decompress_file), the tree walker (compress_directory  *)
(* / decompress_directory), the four cloud transfer functions and main.    *)
(*                                                                         *)
(* A path is a sequence of name components below the file-system root      *)
(* (<<"a", "s", "y">> is /a/s/y, <<"a", "">> is /a/, <<"b", ".", "x">> is  *)
(* /b/./x); a name is a string; file contents are sequences of byte values *)
(* and of the compressed streams the codecs produce.                       *)
(***************************************************************************)
EXTENDS Integers, Sequences, FiniteSets, TLC

VARIABLES
    dirs,       \* the directories that exist (a set of paths)
    files,      \* the regular files that exist: path -> contents
    pc,         \* the statement the single thread is at
    call,       \* the top-level invocation (an API call or a command line)
    frame,      \* arguments of the *_directory call, if there is one
    walk,       \* state of its os.walk generator and of the loop over files
    cur,        \* arguments and locals of the latest *_file or cloud call
    handles,    \* the open file handles: a set of <<path, mode>>
    io,         \* the file I/O performed so far, in order
    log,        \* the log records emitted so far, in order
    err,        \* the exception that left the top-level call, or "none"
    files0,     \* files as they were when the behaviour started
    dirs0       \* dirs as they were when the behaviour started

vars == <<dirs, files, pc, call, frame, walk, cur, handles, io, log, err,
          files0, dirs0>>

----------------------------------------------------------------------------
(* Bounds of the model.                                                    *)

\* Longest plain (uncompressed) file contents in the initial tree.
MaxLen == 1

\* Largest number of regular files in the initial tree.
MaxFiles == 2

----------------------------------------------------------------------------
(* class CompressionAlgorithm and the codec registry.                      *)

GZIP == "gzip"
ZLIB == "zlib"
BZ2 == "bz2"
LZMA == "lzma"

\* The string values of CompressionAlgorithm.__dict__: the four attributes
\* and the class's __module__ entry. (The other values of the class
\* dictionary, None and two descriptors, equal no command-line string.)
ModuleName == "__main__"
ClassDictValues == {ModuleName, GZIP, ZLIB, BZ2, LZMA}

Raised(e) == [raised |-> TRUE, exc |-> e]
Returned(v) == [raised |-> FALSE, value |-> v]

get_compression_function(algorithm) ==
    IF algorithm = GZIP THEN Returned("gzip.compress")
    ELSE IF algorithm = ZLIB THEN Returned("zlib.compress")
    ELSE IF algorithm = BZ2 THEN Returned("bz2.compress")
    ELSE IF algorithm = LZMA THEN Returned("lzma.compress")
    ELSE Raised("ValueError")

get_decompression_function(algorithm) ==
    IF algorithm = GZIP THEN Returned("gzip.decompress")
    ELSE IF algorithm = ZLIB THEN Returned("zlib.decompress")
    ELSE IF algorithm = BZ2 THEN Returned("bz2.decompress")
    ELSE IF algorithm = LZMA THEN Returned("lzma.decompress")
    ELSE Raised("ValueError")

(* The four codecs are library routines. File contents are sequences of    *)
(* values: 0..255 is a byte and stands for itself; a stream that a         *)
(* compressor produced is one member, written as the format's marker, the  *)
(* payload length and the payload. The marker is 256 + the first byte of   *)
(* the format's real stream, so that no byte is taken for a marker; what   *)
(* follows the marker up to the member's end stands for bytes the model    *)
(* does not carry. A truncated member keeps at least its magic bytes.      *)
(*                                                                         *)
(* The decoders keep each library's acceptance rules: gzip and bz2 decode  *)
(* the empty input to the empty output, zlib and lzma reject it; gzip, bz2 *)
(* and lzma decode concatenated members, zlib decodes the first and        *)
(* ignores what follows; gzip strips zero padding after a member and       *)
(* rejects any other trailing bytes; bz2 and lzma ignore trailing bytes    *)
(* their decoder rejects, and fail on trailing bytes it takes for the      *)
(* start of a stream; a truncated member is an error. Bytes are checked    *)
(* against each format's header as the library checks them; where the      *)
(* verdict depends on compressed bits behind a well-formed header, or on   *)
(* bytes the model does not carry, the result is Undetermined.             *)
Libs == {"gzip", "zlib", "bz2", "lzma"}

Magic(lib) ==
    CASE lib = "gzip" -> 256 + 31
      [] lib = "zlib" -> 256 + 120
      [] lib = "bz2" -> 256 + 66
      [] lib = "lzma" -> 256 + 253

IsMagic(v) == \E lib \in Libs : v = Magic(lib)

\* A run of bytes the model does not determine (it may be empty).
Opaque == 512

\* The verdict of a decoder the model cannot give: the call raises one of
\* errs, or returns acc, or returns acc followed by further bytes.
Undetermined(acc, errs) == [raised |-> FALSE, value |-> acc, orRaise |-> errs]
IsUndetermined(r) == "orRaise" \in DOMAIN r

Compress(lib, data) == <<Magic(lib), Len(data)>> \o data

Member(lib, y) ==
    IF Len(y) = 0 THEN [st |-> "eof"]
    ELSE IF y[1] # Magic(lib) THEN [st |-> "badmagic"]
    ELSE IF Len(y) < 2 THEN [st |-> "truncated"]
    ELSE IF Len(y) - 2 < y[2] THEN [st |-> "truncated"]
    ELSE [st |-> "ok", out |-> SubSeq(y, 3, 2 + y[2]),
          rest |-> SubSeq(y, 3 + y[2], Len(y))]

\* The k-th real byte of y, as far as the model has it: the bytes before a
\* marker stand for themselves, a marker for the first byte of its stream.
EndOfInput == 0 - 1
UnknownByte == 0 - 2
ByteAt(y, k) ==
    IF \E i \in 1..(k - 1) : i <= Len(y) /\ y[i] >= 256 THEN UnknownByte
    ELSE IF k > Len(y) THEN EndOfInput
    ELSE IF y[k] < 256 THEN y[k]
    ELSE IF IsMagic(y[k]) THEN y[k] - 256
    ELSE UnknownByte

\* The first bytes of y checked one at a time, each as soon as it is
\* there: byte k has to be in ok[k].
BytewiseVerdict(y, ok) ==
    LET stop == {k \in 1..Len(ok) : ByteAt(y, k) \notin ok[k]} IN
    IF stop = {} THEN "accept"
    ELSE LET k == CHOOSE j \in stop : \A i \in stop : j <= i IN
         IF ByteAt(y, k) = EndOfInput THEN "short"
         ELSE IF ByteAt(y, k) = UnknownByte THEN "unknown"
         ELSE "reject"

\* Bytes lo..hi of y, which are checked together once all of them are
\* there.
Field(y, lo, hi) == [i \in 1..(hi - lo + 1) |-> ByteAt(y, lo + i - 1)]
FieldVerdict(y, hi, ok) ==
    IF ByteAt(y, hi) = EndOfInput THEN "short"
    ELSE IF ByteAt(y, hi) = UnknownByte THEN "unknown"
    ELSE IF ok THEN "accept"
    ELSE "reject"

\* bytes.lstrip(b"\x00")
RECURSIVE LStripZeros(_)
LStripZeros(y) ==
    IF Len(y) > 0 /\ y[1] = 0 THEN LStripZeros(SubSeq(y, 2, Len(y))) ELSE y

GzipErrors == {"BadGzipFile", "EOFError", "zlib.error"}

\* gzip's _read_gzip_header on bytes that are no member of the model: the
\* two magic bytes 1f 8b are read together and compared; the rest of the
\* header is read next, and nothing of it there is an EOFError.
GzipHeader(y, acc) ==
    IF ByteAt(y, 1) = UnknownByte THEN Undetermined(acc, GzipErrors)
    ELSE IF ByteAt(y, 1) # 31 \/ ByteAt(y, 2) = EndOfInput
         THEN Raised("BadGzipFile")
    ELSE IF ByteAt(y, 2) = UnknownByte THEN Undetermined(acc, GzipErrors)
    ELSE IF ByteAt(y, 2) # 139 THEN Raised("BadGzipFile")
    ELSE IF ByteAt(y, 3) = EndOfInput THEN Raised("EOFError")
    ELSE Undetermined(acc, GzipErrors)

\* gzip.decompress: after a member the zero padding is dropped and the
\* loop goes on.
RECURSIVE GzipDecompress(_, _)
GzipDecompress(y, acc) ==
    LET m == Member("gzip", y) IN
    IF m.st = "eof" THEN Returned(acc)
    ELSE IF m.st = "badmagic" THEN GzipHeader(y, acc)
    ELSE IF m.st = "truncated" THEN Raised("EOFError")
    ELSE GzipDecompress(LStripZeros(m.rest), acc \o m.out)

\* The two bytes of a zlib header: method 8 (deflate) with a window of at
\* most 2^15 in the first, the pair a multiple of 31, no preset dictionary.
ZlibHeader(y) ==
    IF ByteAt(y, 1) = UnknownByte THEN "unknown"
    ELSE IF ByteAt(y, 1) = EndOfInput THEN "short"
    ELSE IF ByteAt(y, 1) % 16 # 8 \/ ByteAt(y, 1) \div 16 > 7 THEN "reject"
    ELSE IF ByteAt(y, 2) = UnknownByte THEN "unknown"
    ELSE IF ByteAt(y, 2) = EndOfInput THEN "short"
    ELSE IF (256 * ByteAt(y, 1) + ByteAt(y, 2)) % 31 # 0 THEN "reject"
    ELSE IF (ByteAt(y, 2) \div 32) % 2 = 1 THEN "reject"
    ELSE IF ByteAt(y, 3) = EndOfInput THEN "short"
    ELSE "unknown"

\* zlib.decompress: one stream; an input that is short or rejected is a
\* zlib.error alike.
ZlibDecompress(y) ==
    LET m == Member("zlib", y) IN
    IF m.st = "ok" THEN Returned(m.out)
    ELSE IF m.st = "badmagic" /\ ZlibHeader(y) = "unknown"
         THEN Undetermined(<<>>, {"zlib.error"})
    ELSE Raised("zlib.error")

\* The start of a bzip2 stream: "BZh", the level "1".."9", then the first
\* byte of a block header (31) or of the stream footer (17).
Bz2Header(y) ==
    BytewiseVerdict(y, <<{66}, {90}, {104}, 49..57, {49, 23}>>)

\* bz2.decompress: an OSError of the decoder is forgiven once a stream has
\* been decoded; an input that ends inside a stream is a ValueError.
RECURSIVE Bz2Decompress(_, _, _)
Bz2Decompress(y, acc, first) ==
    LET m == Member("bz2", y) IN
    IF m.st = "eof" THEN Returned(acc)
    ELSE IF m.st = "badmagic"
         THEN (CASE Bz2Header(y) = "reject" ->
                      (IF first THEN Raised("OSError") ELSE Returned(acc))
                 [] Bz2Header(y) = "short" -> Raised("ValueError")
                 [] OTHER ->
                      Undetermined(acc, IF first THEN {"OSError", "ValueError"}
                                        ELSE {"ValueError"}))
    ELSE IF m.st = "truncated" THEN Raised("ValueError")
    ELSE Bz2Decompress(m.rest, acc \o m.out, FALSE)

(* lzma.decompress gives the input, and then any leftover bytes, to a      *)
(* fresh FORMAT_AUTO decoder: leftover bytes the decoder rejects are       *)
(* ignored, an input that ends inside a stream fails the call. The decoder *)
(* goes by the first byte: fd starts an .xz header (twelve bytes), "L" an  *)
(* lzip header (magic "LZIP", version 0 or 1, dictionary size byte), any   *)
(* other byte a legacy .lzma header (properties byte, four bytes of        *)
(* dictionary size, eight bytes of uncompressed size); after the lzip and  *)
(* the legacy header comes the range coder, whose first byte is zero and   *)
(* which takes four more bytes before it decodes anything.                 *)
XzMagic == <<253, 55, 122, 88, 90, 0>>
LzipMagic == <<76, 90, 73, 80>>

\* the lc/lp/pb properties byte: (pb * 5 + lp) * 9 + lc with lc + lp <= 4
LzmaPropsOk(b) == b < 225 /\ (b % 9) + ((b \div 9) % 5) <= 4

\* the dictionary size d, little endian: 2^32 - 1, or 2^n, or
\* 2^n + 2^(n-1) (the decoder's test also lets 0 pass)
LzmaDictOk(d) ==
    LET nz == {i \in 1..4 : d[i] # 0} IN
    \/ \A i \in 1..4 : d[i] = 255
    \/ nz = {}
    \/ \E i \in 1..4 :
         /\ nz = {i}
         /\ d[i] \in {1, 2, 4, 8, 16, 32, 64, 128, 3, 6, 12, 24, 48, 96, 192}
    \/ \E i \in 1..3 : nz = {i, i + 1} /\ d[i] = 128 /\ d[i + 1] = 1

\* the uncompressed size u, little endian: unknown (2^64 - 1), or below 2^38
LzmaSizeOk(u) ==
    \/ \A i \in 1..8 : u[i] = 255
    \/ u[5] < 64 /\ u[6] = 0 /\ u[7] = 0 /\ u[8] = 0

\* the lzip dictionary size byte: 2^12 .. 2^29, less a fraction
LzipDictOk(b) ==
    /\ b % 32 >= 12
    /\ b % 32 <= 29
    /\ (b % 32 = 12 => b \div 32 = 0)

\* The range coder's five bytes of initialisation, the first at byte k of
\* y. What is decoded after them depends on the compressed bits.
RangeCoderStart(y, k) ==
    IF ByteAt(y, k) = EndOfInput THEN "short"
    ELSE IF ByteAt(y, k) = UnknownByte THEN "unknown"
    ELSE IF ByteAt(y, k) # 0 THEN "reject"
    ELSE IF ByteAt(y, k + 4) = EndOfInput THEN "short"
    ELSE "unknown"

\* The header of an .xz stream: magic, stream flags and their CRC32.
XzHeader(y) ==
    LET v == FieldVerdict(y, 12, Field(y, 1, 6) = XzMagic) IN
    IF v = "accept" THEN "unknown" ELSE v

LzipHeader(y) ==
    LET v == BytewiseVerdict(y, [k \in 1..6 |->
                 IF k <= 4 THEN {LzipMagic[k]}
                 ELSE IF k = 5 THEN {0, 1}
                 ELSE {b \in 0..255 : LzipDictOk(b)}]) IN
    IF v = "accept" THEN RangeCoderStart(y, 7) ELSE v

LzmaAloneHeader(y) ==
    LET props == BytewiseVerdict(y, <<{b \in 0..255 : LzmaPropsOk(b)}>>)
        dict == FieldVerdict(y, 5, LzmaDictOk(Field(y, 2, 5)))
        size == FieldVerdict(y, 13, LzmaSizeOk(Field(y, 6, 13)))
    IN IF props # "accept" THEN props
       ELSE IF dict # "accept" THEN dict
       ELSE IF size # "accept" THEN size
       ELSE RangeCoderStart(y, 14)

\* What a FORMAT_AUTO decoder makes of the bytes y, which are no member of
\* the model: "reject", "short" (the input ends inside the stream) or
\* "unknown".
LzmaAuto(y) ==
    IF ByteAt(y, 1) = UnknownByte THEN "unknown"
    ELSE IF ByteAt(y, 1) = XzMagic[1] THEN XzHeader(y)
    ELSE IF ByteAt(y, 1) = LzipMagic[1] THEN LzipHeader(y)
    ELSE LzmaAloneHeader(y)

RECURSIVE LzmaDecompress(_, _, _)
LzmaDecompress(y, acc, first) ==
    LET m == Member("lzma", y) IN
    IF m.st = "eof"
         THEN (IF first THEN Raised("LZMAError") ELSE Returned(acc))
    ELSE IF m.st = "badmagic"
         THEN (CASE LzmaAuto(y) = "reject" ->
                      (IF first THEN Raised("LZMAError") ELSE Returned(acc))
                 [] LzmaAuto(y) = "short" -> Raised("LZMAError")
                 [] OTHER -> Undetermined(acc, {"LZMAError"}))
    ELSE IF m.st = "truncated" THEN Raised("LZMAError")
    ELSE LzmaDecompress(m.rest, acc \o m.out, FALSE)

\* Calling the function object the registry returned.
Apply(fn, data) ==
    CASE fn = "gzip.compress" -> Returned(Compress("gzip", data))
      [] fn = "zlib.compress" -> Returned(Compress("zlib", data))
      [] fn = "bz2.compress" -> Returned(Compress("bz2", data))
      [] fn = "lzma.compress" -> Returned(Compress("lzma", data))
      [] fn = "gzip.decompress" -> GzipDecompress(data, <<>>)
      [] fn = "zlib.decompress" -> ZlibDecompress(data)
      [] fn = "bz2.decompress" -> Bz2Decompress(data, <<>>, TRUE)
      [] fn = "lzma.decompress" -> LzmaDecompress(data, <<>>, TRUE)

\* Bounds on the number of real bytes that the contents y stand for. A
\* byte is one byte; a stream is at least its first byte, and at most
\* twice its payload and StreamOverhead more (the codecs store what they
\* cannot shrink, behind headers and tables of bounded size); an opaque
\* run and a truncated member have no upper bound in the model.
StreamOverhead == 256

Min(a, b) == IF a < b THEN a ELSE b

LiteralRun(y) ==
    IF \A i \in 1..Len(y) : y[i] < 256 THEN Len(y)
    ELSE (CHOOSE i \in 1..Len(y) :
              y[i] >= 256 /\ \A j \in 1..(i - 1) : y[j] < 256) - 1

\* the member of y that starts behind k bytes, if one does
MemberAt(y, k) ==
    IF IsMagic(y[k + 1])
    THEN Member(CHOOSE lib \in Libs : y[k + 1] = Magic(lib),
                SubSeq(y, k + 1, Len(y)))
    ELSE [st |-> "opaque"]

RECURSIVE SizeAtLeast(_)
SizeAtLeast(y) ==
    LET k == LiteralRun(y) IN
    IF k = Len(y) THEN k
    ELSE IF MemberAt(y, k).st = "opaque"
         THEN k + SizeAtLeast(SubSeq(y, k + 2, Len(y)))
    ELSE IF MemberAt(y, k).st # "ok" THEN k + 1
    ELSE k + 1 + SizeAtLeast(MemberAt(y, k).rest)

RECURSIVE SizeBounded(_)
SizeBounded(y) ==
    LET k == LiteralRun(y) IN
    IF k = Len(y) THEN TRUE
    ELSE IF MemberAt(y, k).st # "ok" THEN FALSE
    ELSE SizeBounded(MemberAt(y, k).out) /\ SizeBounded(MemberAt(y, k).rest)

\* the upper bound of contents that have one
RECURSIVE SizeAtMost(_)
SizeAtMost(y) ==
    LET k == LiteralRun(y) IN
    IF k = Len(y) \/ MemberAt(y, k).st # "ok" THEN k
    ELSE k + 2 * SizeAtMost(MemberAt(y, k).out) + StreamOverhead
           + SizeAtMost(MemberAt(y, k).rest)

MayFit(y, size) == SizeAtLeast(y) <= size
MayExceed(y, size) == IF SizeBounded(y) THEN SizeAtMost(y) > size ELSE TRUE

----------------------------------------------------------------------------
(* Paths and the file system calls the program makes.                      *)

Suffix == ".compressed"

\* str.endswith
EndsWith(s, suf) ==
    /\ Len(s) >= Len(suf)
    /\ SubSeq(s, Len(s) - Len(suf) + 1, Len(s)) = suf

Root == <<>>
IsUnder(p, top) == Len(p) >= Len(top) /\ SubSeq(p, 1, Len(top)) = top
Ancestors(p) == {SubSeq(p, 1, k) : k \in 0..(Len(p) - 1)}

\* A path less the slashes that end it (the empty components at its end).
StripSlashes(p) ==
    LET named == {k \in 1..Len(p) : p[k] # ""} IN
    IF named = {} THEN Root
    ELSE SubSeq(p, 1, CHOOSE k \in named : \A j \in named : j <= k)

\* os.path.basename, os.path.dirname (the two halves of os.path.split)
Basename(p) == IF p = Root THEN "" ELSE p[Len(p)]
Dirname(p) == StripSlashes(SubSeq(p, 1, Len(p) - 1))

\* Path(root).relative_to(input_path): Path('.') for input_path itself
RelativeTo(root, top) ==
    IF root = top THEN <<".">> ELSE SubSeq(root, Len(top) + 1, Len(root))

\* One component of a path, taken from the directory at: "" and "." stay,
\* ".." is the parent (the root is its own parent), a name is the entry.
Step(at, c) ==
    IF c \in {"", "."} THEN at
    ELSE IF c = ".." THEN SubSeq(at, 1, Len(at) - 1)
    ELSE Append(at, c)

\* Path(p).resolve() of an absolute path in a tree without symbolic links:
\* the components are collapsed as text, whatever exists.
RECURSIVE Collapse(_, _)
Collapse(at, rest) ==
    IF rest = <<>> THEN at ELSE Collapse(Step(at, Head(rest)), Tail(rest))
Resolve(p) == Collapse(Root, p)

\* The limits of the file system on names: a component of more than
\* NAME_MAX bytes cannot be looked up or created in a directory, and a
\* path of PATH_MAX bytes or more (the final NUL counted) is refused
\* before it is walked. Both are ENAMETOOLONG.
NAME_MAX == 255
PATH_MAX == 4096

\* the length of the path as text: "/" and the components joined by "/"
RECURSIVE NamesLen(_)
NamesLen(p) ==
    IF p = <<>> THEN 0 ELSE 1 + Len(Head(p)) + NamesLen(Tail(p))
PathLen(p) == IF p = Root THEN 1 ELSE NamesLen(p)
PathTooLong(p) == PathLen(p) >= PATH_MAX

\* What is at the location q of the tree (fs: the files, ds: the
\* directories).
Kind(fs, ds, q) ==
    IF q \in ds THEN "dir" ELSE IF q \in DOMAIN fs THEN "file" ELSE "none"

\* The kernel's path walk: every component, "", "." and ".." included, is
\* taken from a directory; from a regular file it is ENOTDIR, from nothing
\* ENOENT, and a component longer than NAME_MAX is ENAMETOOLONG.
RECURSIVE WalkFrom(_, _, _, _)
WalkFrom(fs, ds, at, rest) ==
    IF rest = <<>> THEN [errno |-> "none", at |-> at]
    ELSE IF Kind(fs, ds, at) = "file" THEN [errno |-> "ENOTDIR", at |-> at]
    ELSE IF Kind(fs, ds, at) = "none" THEN [errno |-> "ENOENT", at |-> at]
    ELSE IF Len(Head(rest)) > NAME_MAX
         THEN [errno |-> "ENAMETOOLONG", at |-> at]
    ELSE WalkFrom(fs, ds, Step(at, Head(rest)), Tail(rest))

\* the walk of all of p, and what it ends at
Lookup(fs, ds, p) ==
    LET r == WalkFrom(fs, ds, Root, p) IN
    IF PathTooLong(p) THEN [errno |-> "ENAMETOOLONG", at |-> Root]
    ELSE IF r.errno # "none" THEN r
    ELSE IF Kind(fs, ds, r.at) = "none" THEN [errno |-> "ENOENT", at |-> r.at]
    ELSE r

\* the walk to the directory that the last component of p (p ends in no
\* slash) is taken from
LookupParent(fs, ds, p) ==
    LET r == WalkFrom(fs, ds, Root, SubSeq(p, 1, Len(p) - 1)) IN
    IF r.errno # "none" THEN r
    ELSE IF Kind(fs, ds, r.at) = "file" THEN [errno |-> "ENOTDIR", at |-> r.at]
    ELSE IF Kind(fs, ds, r.at) = "none" THEN [errno |-> "ENOENT", at |-> r.at]
    ELSE r

\* the exception class of an errno
OSErrorOf(errno) ==
    CASE errno = "ENOENT" -> "FileNotFoundError"
      [] errno = "ENOTDIR" -> "NotADirectoryError"
      [] errno = "EISDIR" -> "IsADirectoryError"
      [] errno = "EEXIST" -> "FileExistsError"
      [] errno = "ENAMETOOLONG" -> "OSError"

\* os.path.exists, os.path.isfile, os.path.isdir: a failed stat is False
ExistsIn(fs, ds, p) == Lookup(fs, ds, p).errno = "none"
IsFileIn(fs, ds, p) ==
    ExistsIn(fs, ds, p) /\ Kind(fs, ds, Lookup(fs, ds, p).at) = "file"
IsDirIn(fs, ds, p) ==
    ExistsIn(fs, ds, p) /\ Kind(fs, ds, Lookup(fs, ds, p).at) = "dir"
isfile(p) == IsFileIn(files, dirs, p)
isdir(p) == IsDirIn(files, dirs, p)

\* where the file that the path p names is kept
Located(p) == Lookup(files, dirs, p).at

\* os.scandir as os.walk uses it: the regular files and the
\* subdirectories of top; an error (top missing, or no directory) is
\* swallowed by os.walk, which then yields nothing for top.
ListFiles(top) ==
    IF isdir(top)
    THEN {Basename(p) : p \in {q \in DOMAIN files : Dirname(q) = top}}
    ELSE {}
ListDirs(top) ==
    IF isdir(top)
    THEN {d \in dirs : Len(d) > 0 /\ Dirname(d) = top}
    ELSE {}

\* open(path, 'rb')
OpenRead(p) ==
    LET r == Lookup(files, dirs, p) IN
    IF r.errno # "none" THEN Raised(OSErrorOf(r.errno))
    ELSE IF Kind(files, dirs, r.at) = "dir" THEN Raised("IsADirectoryError")
    ELSE Returned(r.at)

\* open(path, 'wb'): creates or truncates the file. The last component is
\* taken from the directory the others lead to: "." and ".." are that
\* directory or its parent, a name followed by a slash cannot be created
\* as a file whatever is there, and a name alone is looked up there and
\* created unless it is a directory.
OpenWrite(p) ==
    LET n == StripSlashes(p)
        r == LookupParent(files, dirs, n)
    IN IF PathTooLong(p) THEN Raised(OSErrorOf("ENAMETOOLONG"))
       ELSE IF n = Root THEN Raised("IsADirectoryError")
       ELSE IF r.errno # "none" THEN Raised(OSErrorOf(r.errno))
       ELSE IF Basename(n) \in {".", ".."} \/ n # p
            THEN Raised("IsADirectoryError")
       ELSE IF Len(Basename(n)) > NAME_MAX
            THEN Raised(OSErrorOf("ENAMETOOLONG"))
       ELSE IF Kind(files, dirs, Append(r.at, Basename(n))) = "dir"
            THEN Raised("IsADirectoryError")
       ELSE Returned(Append(r.at, Basename(n)))

\* os.mkdir(name) in the tree with the directories ds: the directories it
\* leaves, and the exception or "none". The slashes that end name are
\* dropped; "." and ".." as the last component, like an entry that is
\* there, are EEXIST.
Mkdir(fs, ds, name) ==
    LET n == StripSlashes(name)
        r == LookupParent(fs, ds, n)
    IN IF PathTooLong(name)
       THEN [dirs |-> ds, exc |-> OSErrorOf("ENAMETOOLONG")]
       ELSE IF n = Root THEN [dirs |-> ds, exc |-> "FileExistsError"]
       ELSE IF r.errno # "none" THEN [dirs |-> ds, exc |-> OSErrorOf(r.errno)]
       ELSE IF Basename(n) \in {".", ".."}
            THEN [dirs |-> ds, exc |-> "FileExistsError"]
       ELSE IF Len(Basename(n)) > NAME_MAX
            THEN [dirs |-> ds, exc |-> OSErrorOf("ENAMETOOLONG")]
       ELSE IF Kind(fs, ds, Append(r.at, Basename(n))) # "none"
            THEN [dirs |-> ds, exc |-> "FileExistsError"]
       ELSE [dirs |-> ds \cup {Append(r.at, Basename(n))}, exc |-> "none"]

\* os.makedirs(name, exist_ok=True): split name into head and tail (once
\* more when name ends in a slash); when head does not exist, make it by
\* the same rule, forgiving FileExistsError, and stop there when the tail
\* is "."; then mkdir(name), whose OSError is forgiven when name is a
\* directory.
RECURSIVE MakeDirs(_, _, _)
MakeDirs(fs, ds, name) ==
    LET whole == IF Basename(name) # "" THEN name ELSE Dirname(name)
        head == Dirname(whole)
        tail == Basename(whole)
        climb == tail # "" /\ ~ExistsIn(fs, ds, head)
        up == IF climb THEN MakeDirs(fs, ds, head)
              ELSE [dirs |-> ds, exc |-> "none"]
        made == Mkdir(fs, up.dirs, name)
    IN IF up.exc \notin {"none", "FileExistsError"} THEN up
       ELSE IF climb /\ tail = "." THEN [dirs |-> up.dirs, exc |-> "none"]
       ELSE IF made.exc = "none" THEN made
       ELSE IF IsDirIn(fs, up.dirs, name)
            THEN [dirs |-> up.dirs, exc |-> "none"]
       ELSE [dirs |-> up.dirs, exc |-> made.exc]

----------------------------------------------------------------------------
(* Frames.                                                                 *)

NoFrame == [fn |-> "none", input_path |-> <<>>, output_path |-> <<>>,
            algorithm |-> ""]
NoWalk == [root |-> <<>>, files |-> {}, pending |-> <<>>, file |-> "",
           target |-> <<>>]
NoCur == [fn |-> "none", input_path |-> <<>>, output_path |-> <<>>,
          algorithm |-> "", func |-> "", data |-> <<>>, result |-> <<>>,
          buffered |-> <<>>]

FileCall(fn, input_path, output_path, algorithm) ==
    [fn |-> fn, input_path |-> input_path, output_path |-> output_path,
     algorithm |-> algorithm, func |-> "", data |-> <<>>, result |-> <<>>,
     buffered |-> <<>>]

\* lines 91-92 / 107-108: both paths are resolved on entry
DirCall(fn, input_path, output_path, algorithm) ==
    [fn |-> fn, input_path |-> Resolve(input_path),
     output_path |-> Resolve(output_path), algorithm |-> algorithm]

\* Propagate, were the loop over the files to catch the exception and go on
\* with the next file.
Propagate_Continue(e) ==
    IF frame.fn = "none"
    THEN [pc |-> "raised", err |-> e, handles |-> {}]
    ELSE [pc |-> "d_loop", err |-> e, handles |-> {}]

\* An exception raised in a *_file or *_directory call: nothing in the
\* program catches it, so it leaves the loop over the files, the walk and
\* main; the with blocks it passes close their handles.
Propagate(e) == [pc |-> "raised", err |-> e, handles |-> {}]

Raise(e) ==
    LET r == Propagate(e) IN
    /\ pc' = r.pc
    /\ err' = r.err
    /\ handles' = r.handles

----------------------------------------------------------------------------
(* compress_file and decompress_file, statement by statement.              *)

\* StatementAfter, were the destination opened before the data is
\* transcoded.
StatementAfter_OpenFirst(at) ==
    CASE at = "f_get" -> "f_open_in"
      [] at = "f_open_in" -> "f_read"
      [] at = "f_read" -> "f_open_out"
      [] at = "f_open_out" -> "f_code"
      [] at = "f_code" -> "f_write"
      [] at = "f_write" -> "f_close_out"
      [] at = "f_close_out" -> "f_close_in"
      [] at = "f_close_in" -> "f_log"

\* lines 65-74 / 78-87: the statement reached when the one at `at`
\* completes without raising
StatementAfter(at) ==
    CASE at = "f_get" -> "f_open_in"
      [] at = "f_open_in" -> "f_read"
      [] at = "f_read" -> "f_code"
      [] at = "f_code" -> "f_open_out"
      [] at = "f_open_out" -> "f_write"
      [] at = "f_write" -> "f_close_out"
      [] at = "f_close_out" -> "f_close_in"
      [] at = "f_close_in" -> "f_log"

\* line 65 / 78
Registry(fn, algorithm) ==
    IF fn = "compress_file" THEN get_compression_function(algorithm)
    ELSE get_decompression_function(algorithm)

GetFunction ==
    /\ pc = "f_get"
    /\ LET r == Registry(cur.fn, cur.algorithm) IN
       IF r.raised
       THEN /\ Raise(r.exc)
            /\ UNCHANGED cur
       ELSE /\ cur' = [cur EXCEPT !.func = r.value]
            /\ pc' = StatementAfter("f_get")
            /\ UNCHANGED <<err, handles>>
    /\ UNCHANGED <<dirs, files, call, frame, walk, io, log, files0, dirs0>>

\* line 67 / 80: with open(input_path, 'rb') as f_in
OpenInput ==
    /\ pc = "f_open_in"
    /\ LET r == OpenRead(cur.input_path) IN
       IF r.raised
       THEN /\ Raise(r.exc)
            /\ UNCHANGED io
       ELSE /\ handles' = handles \cup {<<cur.input_path, "rb">>}
            /\ io' = Append(io, [op |-> "open_rb", path |-> cur.input_path])
            /\ pc' = StatementAfter("f_open_in")
            /\ UNCHANGED err
    /\ UNCHANGED <<dirs, files, call, frame, walk, cur, log, files0, dirs0>>

\* line 68 / 81: f_in.read()
ReadInput ==
    /\ pc = "f_read"
    /\ cur' = [cur EXCEPT !.data = files[Located(cur.input_path)]]
    /\ io' = Append(io, [op |-> "read", path |-> cur.input_path])
    /\ pc' = StatementAfter("f_read")
    /\ UNCHANGED <<dirs, files, call, frame, walk, handles, log, err,
                   files0, dirs0>>

\* line 69 / 82: compress(data) / decompress(compressed_data)
Transcode ==
    /\ pc = "f_code"
    /\ LET r == Apply(cur.func, cur.data) IN
       IF r.raised
       THEN /\ Raise(r.exc)
            /\ UNCHANGED cur
       ELSE IF IsUndetermined(r)
       THEN \/ \E e \in r.orRaise :
                 /\ Raise(e)
                 /\ UNCHANGED cur
            \/ \E v \in {r.value, r.value \o <<Opaque>>} :
                 /\ cur' = [cur EXCEPT !.result = v]
                 /\ pc' = StatementAfter("f_code")
                 /\ UNCHANGED <<err, handles>>
       ELSE /\ cur' = [cur EXCEPT !.result = r.value]
            /\ pc' = StatementAfter("f_code")
            /\ UNCHANGED <<err, handles>>
    /\ UNCHANGED <<dirs, files, call, frame, walk, io, log, files0, dirs0>>

\* line 71 / 84: with open(output_path, 'wb') as f_out
OpenOutput ==
    /\ pc = "f_open_out"
    /\ LET r == OpenWrite(cur.output_path) IN
       IF r.raised
       THEN /\ Raise(r.exc)
            /\ UNCHANGED <<files, io>>
       ELSE /\ files' = [p \in DOMAIN files \cup {r.value} |->
                           IF p = r.value THEN <<>> ELSE files[p]]
            /\ handles' = handles \cup {<<cur.output_path, "wb">>}
            /\ io' = Append(io, [op |-> "open_wb", path |-> cur.output_path])
            /\ pc' = StatementAfter("f_open_out")
            /\ UNCHANGED err
    /\ UNCHANGED <<dirs, call, frame, walk, cur, log, files0, dirs0>>

\* open(output_path, 'wb') gives a buffered writer. Its buffer has the
\* block size the file system reports for the file (st_blksize: 4096 on
\* ext4 and tmpfs), or io.DEFAULT_BUFFER_SIZE where it reports none.
BlockSize == 4096
DefaultBufferSize == 8192
BufferSizes == {BlockSize, DefaultBufferSize}

\* line 72 / 85: f_out.write(...). Bytes that fit the buffer stay in it
\* (cur.buffered), more than that goes to the file at once.
WriteOutput ==
    /\ pc = "f_write"
    /\ \E size \in BufferSizes :
         \/ /\ MayExceed(cur.result, size)
            /\ files' = [files EXCEPT ![Located(cur.output_path)] = cur.result]
            /\ UNCHANGED cur
         \/ /\ MayFit(cur.result, size)
            /\ cur' = [cur EXCEPT !.buffered = cur.result]
            /\ UNCHANGED files
    /\ io' = Append(io, [op |-> "write", path |-> cur.output_path])
    /\ pc' = StatementAfter("f_write")
    /\ UNCHANGED <<dirs, call, frame, walk, handles, log, err, files0, dirs0>>

\* leaving the inner with block closes f_out: the buffer is flushed into
\* the file
CloseOutput ==
    /\ pc = "f_close_out"
    /\ files' = [files EXCEPT ![Located(cur.output_path)] = @ \o cur.buffered]
    /\ cur' = [cur EXCEPT !.buffered = <<>>]
    /\ handles' = handles \ {<<cur.output_path, "wb">>}
    /\ pc' = StatementAfter("f_close_out")
    /\ UNCHANGED <<dirs, call, frame, walk, io, log, err, files0, dirs0>>

\* leaving the outer with block closes f_in
CloseInput ==
    /\ pc = "f_close_in"
    /\ handles' = handles \ {<<cur.input_path, "rb">>}
    /\ pc' = StatementAfter("f_close_in")
    /\ UNCHANGED <<dirs, files, call, frame, walk, cur, io, log, err,
                   files0, dirs0>>

\* line 74 / 87: logger.info, then the return to the caller
FileLogRecord(c) ==
    [level |-> "INFO", fn |-> c.fn, input_path |-> c.input_path,
     output_path |-> c.output_path, algorithm |-> c.algorithm]

LogFile ==
    /\ pc = "f_log"
    /\ log' = Append(log, FileLogRecord(cur))
    /\ pc' = IF frame.fn = "none" THEN "done" ELSE "d_loop"
    /\ UNCHANGED <<dirs, files, call, frame, walk, cur, handles, io, err,
                   files0, dirs0>>

FileStep ==
    \/ GetFunction
    \/ OpenInput
    \/ ReadInput
    \/ Transcode
    \/ OpenOutput
    \/ WriteOutput
    \/ CloseOutput
    \/ CloseInput
    \/ LogFile

compress_file == cur.fn = "compress_file" /\ FileStep
decompress_file == cur.fn = "decompress_file" /\ FileStep

----------------------------------------------------------------------------
(* compress_directory and decompress_directory.                            *)

\* CompressTarget, were the marker suffix not appended.
CompressTarget_NoSuffix(output_path, relative_path, file) ==
    output_path \o relative_path \o <<file>>

\* line 98: os.path.join(output_path, relative_path, f"{file}.compressed")
CompressTarget(output_path, relative_path, file) ==
    output_path \o relative_path \o <<file \o Suffix>>

\* DecompressTarget, were the relative path left out of the join.
DecompressTarget_Flat(output_path, relative_path, file) ==
    output_path \o <<SubSeq(file, 1, Len(file) - Len(Suffix))>>

\* DecompressTarget, were the marker suffix not stripped.
DecompressTarget_KeepSuffix(output_path, relative_path, file) ==
    output_path \o relative_path \o <<file>>

\* line 115: os.path.join(output_path, relative_path,
\*                        file[:-len('.compressed')])
DecompressTarget(output_path, relative_path, file) ==
    output_path \o relative_path
        \o <<SubSeq(file, 1, Len(file) - Len(Suffix))>>

\* Eligible, were the test of the name missing.
Eligible_Always(fn, file) == TRUE

\* line 112: only decompress_directory tests the name
Eligible(fn, file) ==
    IF fn = "decompress_directory" THEN EndsWith(file, Suffix) ELSE TRUE

Target(fn, output_path, relative_path, file) ==
    IF fn = "compress_directory"
    THEN CompressTarget(output_path, relative_path, file)
    ELSE DecompressTarget(output_path, relative_path, file)

FileFunction(fn) ==
    IF fn = "compress_directory" THEN "compress_file" ELSE "decompress_file"

\* lines 91-94 / 107-110: resolve both paths, start os.walk(input_path).
\* Top-down: a directory's files are listed, and its subdirectories noted,
\* when the walk reaches it.
StartWalk ==
    /\ pc = "d_walk"
    /\ walk' = [NoWalk EXCEPT !.root = frame.input_path,
                              !.files = ListFiles(frame.input_path),
                              !.pending = <<ListDirs(frame.input_path)>>]
    /\ pc' = "d_loop"
    /\ UNCHANGED <<dirs, files, call, frame, cur, handles, io, log, err,
                   files0, dirs0>>

\* lines 95-98 / 111-115: the next file of the listing (a directory's
\* entries come in no particular order) and its target
NextFile ==
    /\ pc = "d_loop"
    /\ \E file \in walk.files :
         /\ Eligible(frame.fn, file)
         /\ walk' = [walk EXCEPT
                !.files = walk.files \ {file},
                !.file = file,
                !.target = Target(frame.fn, frame.output_path,
                                  RelativeTo(walk.root, frame.input_path),
                                  file)]
    /\ pc' = "d_mkdirs"
    /\ UNCHANGED <<dirs, files, call, frame, cur, handles, io, log, err,
                   files0, dirs0>>

\* line 112, condition false: the file is passed over
SkipFile ==
    /\ pc = "d_loop"
    /\ \E file \in walk.files :
         /\ ~Eligible(frame.fn, file)
         /\ walk' = [walk EXCEPT !.files = walk.files \ {file}]
    /\ UNCHANGED <<dirs, files, pc, call, frame, cur, handles, io, log, err,
                   files0, dirs0>>

\* lines 99-101 / 116-118: os.makedirs(dirname(target), exist_ok=True),
\* then the call of compress_file / decompress_file.  For the files of
\* input_path itself relative_path is Path('.'), the target is
\* "<output_path>/./<name>" and its dirname "<output_path>/.".
MakeDirsAndCall ==
    /\ pc = "d_mkdirs"
    /\ LET d == Dirname(walk.target)
           r == MakeDirs(files, dirs, d)
       IN /\ dirs' = r.dirs
          /\ io' = IF r.dirs = dirs THEN io
                   ELSE Append(io, [op |-> "mkdir", path |-> d])
          /\ IF r.exc # "none"
             THEN /\ Raise(r.exc)
                  /\ UNCHANGED cur
             ELSE /\ cur' = FileCall(FileFunction(frame.fn),
                                     walk.root \o <<walk.file>>,
                                     walk.target, frame.algorithm)
                  /\ pc' = "f_get"
                  /\ UNCHANGED <<err, handles>>
    /\ UNCHANGED <<files, call, frame, walk, log, files0, dirs0>>

\* os.walk, the files of the current directory done: the walk goes down
\* into a subdirectory not yet visited ...
Descend ==
    /\ pc = "d_loop"
    /\ walk.files = {}
    /\ Len(walk.pending) > 0
    /\ \E d \in walk.pending[Len(walk.pending)] :
         walk' = [walk EXCEPT
            !.root = d,
            !.files = ListFiles(d),
            !.pending = Append(
                [walk.pending EXCEPT ![Len(walk.pending)] = @ \ {d}],
                ListDirs(d))]
    /\ UNCHANGED <<dirs, files, pc, call, frame, cur, handles, io, log, err,
                   files0, dirs0>>

\* ... or, with none left at this level, back up one level
Ascend ==
    /\ pc = "d_loop"
    /\ walk.files = {}
    /\ Len(walk.pending) > 0
    /\ walk.pending[Len(walk.pending)] = {}
    /\ walk' = [walk EXCEPT
            !.pending = SubSeq(walk.pending, 1, Len(walk.pending) - 1)]
    /\ UNCHANGED <<dirs, files, pc, call, frame, cur, handles, io, log, err,
                   files0, dirs0>>

\* line 103 / 120: the walk is exhausted; the summary record, the return
DirLogRecord(f) ==
    [level |-> "INFO", fn |-> f.fn, input_path |-> f.input_path,
     output_path |-> f.output_path, algorithm |-> f.algorithm]

LogDirectory ==
    /\ pc = "d_loop"
    /\ walk.files = {}
    /\ walk.pending = <<>>
    /\ log' = Append(log, DirLogRecord(frame))
    /\ pc' = "done"
    /\ UNCHANGED <<dirs, files, call, frame, walk, cur, handles, io, err,
                   files0, dirs0>>

DirStep ==
    \/ StartWalk
    \/ NextFile
    \/ SkipFile
    \/ MakeDirsAndCall
    \/ Descend
    \/ Ascend
    \/ LogDirectory

compress_directory == frame.fn = "compress_directory" /\ DirStep
decompress_directory == frame.fn = "decompress_directory" /\ DirStep

----------------------------------------------------------------------------
(* upload_to_s3, download_from_s3, upload_to_gcs, download_from_gcs.       *)
(* The object stores are outside the program: a transfer succeeds or the   *)
(* client library raises, and a download brings whatever the object holds. *)

CloudFunctions == {"upload_to_s3", "download_from_s3",
                   "upload_to_gcs", "download_from_gcs"}

\* the statement a cloud function starts at
CloudEntry(fn) ==
    CASE fn = "upload_to_s3" -> "s3_upload"
      [] fn = "download_from_s3" -> "s3_download"
      [] fn = "upload_to_gcs" -> "gcs_bucket"
      [] fn = "download_from_gcs" -> "gcs_bucket"

\* the call fn(file_path, bucket, key): bucket and key only pass through
CloudCall(fn, file_path) ==
    [fn |-> fn, input_path |-> file_path, output_path |-> <<>>,
     algorithm |-> "", func |-> "", data |-> <<>>, result |-> <<>>,
     buffered |-> <<>>]

\* what the object of a download may hold
ObjectData == UNION {[1..n -> {104}] : n \in 0..MaxLen}

\* the local file as a download leaves it: created or replaced
Downloaded(p, data) ==
    [q \in DOMAIN files \cup {p} |-> IF q = p THEN data ELSE files[q]]

\* line 124: s3_client.upload_file(file_path, bucket_name, key). The
\* library reads the local file, which has to be there.
S3Upload ==
    /\ pc = "s3_upload"
    /\ LET r == OpenRead(cur.input_path) IN
       IF r.raised
       THEN /\ Raise(r.exc)
            /\ UNCHANGED io
       ELSE \/ /\ io' = Append(io, [op |-> "upload", path |-> cur.input_path])
               /\ pc' = "c_log"
               /\ UNCHANGED <<err, handles>>
            \/ /\ Raise("S3UploadFailedError")
               /\ UNCHANGED io
    /\ UNCHANGED <<dirs, files, call, frame, walk, cur, log, files0, dirs0>>

\* line 129: s3_client.download_file(bucket_name, key, file_path). The
\* library writes a temporary file and renames it to file_path when the
\* transfer is complete: a failed transfer leaves file_path alone.
S3Download ==
    /\ pc = "s3_download"
    /\ LET r == OpenWrite(cur.input_path) IN
       IF r.raised
       THEN /\ Raise(r.exc)
            /\ UNCHANGED <<files, io>>
       ELSE \/ \E data \in ObjectData :
                 /\ files' = Downloaded(r.value, data)
                 /\ io' = Append(io, [op |-> "download",
                                      path |-> cur.input_path])
                 /\ pc' = "c_log"
                 /\ UNCHANGED <<err, handles>>
            \/ /\ Raise("ClientError")
               /\ UNCHANGED <<files, io>>
    /\ UNCHANGED <<dirs, call, frame, walk, cur, log, files0, dirs0>>

\* lines 134-135 / 141-142: gcs_client.get_bucket(bucket_name), a request
\* to the store, and bucket.blob(blob_name), which makes none
GcsGetBucket ==
    /\ pc = "gcs_bucket"
    /\ \/ /\ pc' = IF cur.fn = "upload_to_gcs" THEN "gcs_upload"
                   ELSE "gcs_download"
          /\ UNCHANGED <<err, handles>>
       \/ Raise("GoogleAPICallError")
    /\ UNCHANGED <<dirs, files, call, frame, walk, cur, io, log,
                   files0, dirs0>>

\* line 136: blob.upload_from_filename(file_path) opens the local file
GcsUpload ==
    /\ pc = "gcs_upload"
    /\ LET r == OpenRead(cur.input_path) IN
       IF r.raised
       THEN /\ Raise(r.exc)
            /\ UNCHANGED io
       ELSE \/ /\ io' = Append(io, [op |-> "upload", path |-> cur.input_path])
               /\ pc' = "c_log"
               /\ UNCHANGED <<err, handles>>
            \/ /\ Raise("GoogleAPICallError")
               /\ UNCHANGED io
    /\ UNCHANGED <<dirs, files, call, frame, walk, cur, log, files0, dirs0>>

\* line 143: blob.download_to_filename(file_path) opens the local file for
\* writing, then transfers into it. When the transfer fails the library
\* removes the file or, in the versions that do so only for some errors,
\* leaves it empty.
GcsDownload ==
    /\ pc = "gcs_download"
    /\ LET r == OpenWrite(cur.input_path) IN
       IF r.raised
       THEN /\ Raise(r.exc)
            /\ UNCHANGED <<files, io>>
       ELSE \/ \E data \in ObjectData :
                 /\ files' = Downloaded(r.value, data)
                 /\ io' = Append(io, [op |-> "download",
                                      path |-> cur.input_path])
                 /\ pc' = "c_log"
                 /\ UNCHANGED <<err, handles>>
            \/ /\ Raise("GoogleAPICallError")
               /\ \/ files' = Downloaded(r.value, <<>>)
                  \/ files' = [q \in DOMAIN files \ {r.value} |->
                                  files[q]]
               /\ io' = Append(io, [op |-> "open_wb",
                                    path |-> cur.input_path])
    /\ UNCHANGED <<dirs, call, frame, walk, cur, log, files0, dirs0>>

\* line 125 / 130 / 137 / 144: logger.info, then the return
CloudLogRecord(c) ==
    [level |-> "INFO", fn |-> c.fn, input_path |-> c.input_path,
     output_path |-> c.output_path, algorithm |-> c.algorithm]

CloudLog ==
    /\ pc = "c_log"
    /\ log' = Append(log, CloudLogRecord(cur))
    /\ pc' = "done"
    /\ UNCHANGED <<dirs, files, call, frame, walk, cur, handles, io, err,
                   files0, dirs0>>

upload_to_s3 == cur.fn = "upload_to_s3" /\ (S3Upload \/ CloudLog)
download_from_s3 == cur.fn = "download_from_s3" /\ (S3Download \/ CloudLog)
upload_to_gcs ==
    cur.fn = "upload_to_gcs" /\ (GcsGetBucket \/ GcsUpload \/ CloudLog)
download_from_gcs ==
    cur.fn = "download_from_gcs" /\ (GcsGetBucket \/ GcsDownload \/ CloudLog)

\* lines 216-225: the function of "cloud <service> <direction>"
CloudFunction(cloud) ==
    CASE cloud = <<"s3", "upload">> -> "upload_to_s3"
      [] cloud = <<"s3", "download">> -> "download_from_s3"
      [] cloud = <<"gcs", "upload">> -> "upload_to_gcs"
      [] cloud = <<"gcs", "download">> -> "download_from_gcs"

----------------------------------------------------------------------------
(* main.                                                                   *)

\* lines 155-156 / 162-163: choices=list(CompressionAlgorithm.__dict__
\* .values()), default=CompressionAlgorithm.GZIP. option is <<>> when -a is
\* not given and <<v>> for "-a v".
Choices == ClassDictValues

ParseAlgorithm(option) ==
    IF option = <<>> THEN Returned(GZIP)
    ELSE IF option[1] \in Choices THEN Returned(option[1])
    ELSE Raised("SystemExit")

\* line 197: parser.parse_args(). The cloud subcommands take no
\* --algorithm.
ParseArgs ==
    /\ pc = "main_parse"
    /\ LET r == IF call.command = "cloud" THEN Returned("")
                ELSE ParseAlgorithm(call.option) IN
       IF r.raised
       THEN /\ pc' = "raised"
            /\ err' = r.exc
            /\ UNCHANGED call
       ELSE /\ call' = [call EXCEPT !.algorithm = r.value]
            /\ pc' = "main_dispatch"
            /\ UNCHANGED err
    /\ UNCHANGED <<dirs, files, frame, walk, cur, handles, io, log,
                   files0, dirs0>>

\* lines 199-225
Dispatch ==
    /\ pc = "main_dispatch"
    /\ IF call.command = "cloud"
       THEN /\ cur' = CloudCall(CloudFunction(call.cloud), call.input)
            /\ pc' = CloudEntry(CloudFunction(call.cloud))
            /\ UNCHANGED <<frame, log>>
       ELSE IF isfile(call.input)
       THEN /\ cur' = FileCall(call.command \o "_file", call.input,
                               call.output, call.algorithm)
            /\ pc' = "f_get"
            /\ UNCHANGED <<frame, log>>
       ELSE IF isdir(call.input)
       THEN /\ frame' = DirCall(call.command \o "_directory", call.input,
                                call.output, call.algorithm)
            /\ pc' = "d_walk"
            /\ UNCHANGED <<cur, log>>
       ELSE /\ log' = Append(log, [level |-> "ERROR", fn |-> "main",
                                   input_path |-> call.input,
                                   output_path |-> call.output,
                                   algorithm |-> call.algorithm])
            /\ pc' = "done"
            /\ UNCHANGED <<cur, frame>>
    /\ UNCHANGED <<dirs, files, call, walk, handles, io, err, files0, dirs0>>

main == call.entry = "main" /\ (ParseArgs \/ Dispatch)

----------------------------------------------------------------------------
(* The initial file trees and the invocations the model explores.          *)

ByteVals == {104}

\* every byte sequence of length at most MaxLen
PlainData == UNION {[1..n -> ByteVals] : n \in 0..MaxLen}

GzipData == {Compress("gzip", d) : d \in PlainData}

\* A well-formed zlib header (78 9c) and one byte of compressed bits: what
\* zlib.decompress makes of these the model does not determine.
ZlibStart == <<120, 156, 104>>

\* Names and paths at the file system's limits: a name that is one byte
\* too long once the marker suffix is appended, a name that is one byte
\* too long, and a path of PATH_MAX bytes.
RECURSIVE Repeat(_, _)
Repeat(s, n) ==
    IF n = 0 THEN ""
    ELSE LET half == Repeat(s, n \div 2) IN
         IF n % 2 = 0 THEN half \o half ELSE half \o half \o s
LongName == Repeat("n", NAME_MAX - Len(Suffix) + 1)
TooLongName == Repeat("n", NAME_MAX + 1)
DeepName == Repeat("d", NAME_MAX)
DeepPath == [k \in 1..(PATH_MAX \div (NAME_MAX + 1)) |-> DeepName]

\* The files an initial tree may hold, each with the contents it may have:
\* plain files, files that carry the marker suffix (holding a gzip stream
\* or anything else), and a plain file "s" under /b (where a mirror of /a
\* needs a directory). The files that are in a destination beforehand are
\* empty.
CandFiles ==
    {<<"a", "x">>, <<"a", "x.compressed">>, <<"a", "s", "x.compressed">>,
     <<"b", "s">>}

InitContents(p) ==
    IF p \in {<<"b", "s">>, <<"b", "z.compressed">>, <<"c", "z">>}
    THEN {<<>>}
    ELSE IF p = <<"a", ".compressed">> THEN GzipData
    ELSE IF p = <<"a", "x.compressed">>
         THEN PlainData \cup GzipData \cup {ZlibStart}
    ELSE IF EndsWith(Basename(p), Suffix) THEN PlainData \cup GzipData
    ELSE PlainData

TreesOver(cands, n) ==
    UNION {{f \in [S -> UNION {InitContents(p) : p \in S}] :
                \A p \in S : f[p] \in InitContents(p)} :
           S \in {T \in SUBSET cands : Cardinality(T) <= n}}

\* /a always exists; the other directories are those the files need.
DirsOf(f) == {Root, <<"a">>} \cup UNION {Ancestors(p) : p \in DOMAIN f}

Supported == {GZIP, ZLIB, BZ2, LZMA}
ApiFunctions == {"compress_file", "decompress_file",
                 "compress_directory", "decompress_directory"}
ApiAlgorithms == Supported \cup {"rar"}
InPaths == {<<"a">>, <<"a", "x.compressed">>, <<"a", TooLongName>>, DeepPath}
\* on a command line the directory is also given as "a/" and "a/s/.."
CommandLinePaths == InPaths \cup {<<"a", "">>, <<"a", "s", "..">>}
OutPaths == {<<"b">>, <<"a", "s">>, <<"a", "x">>, <<"b", TooLongName>>}
Commands == {"compress", "decompress"}
Options == {<<>>, <<ZLIB>>, <<ModuleName>>, <<"rar">>}

\* the local paths given to the cloud functions
CloudPaths == {<<"a">>, <<"a", "x">>, <<"b">>}
CloudCommands == {"s3", "gcs"} \X {"upload", "download"}

NoCall == [entry |-> "none", command |-> "", input |-> <<>>,
           output |-> <<>>, option |-> <<>>, algorithm |-> "",
           cloud |-> <<>>]

Init ==
    /\ files \in TreesOver(CandFiles, MaxFiles)
    /\ dirs = DirsOf(files)
    /\ files0 = files
    /\ dirs0 = dirs
    /\ pc = "idle"
    /\ call = NoCall
    /\ frame = NoFrame
    /\ walk = NoWalk
    /\ cur = NoCur
    /\ handles = {}
    /\ io = <<>>
    /\ log = <<>>
    /\ err = "none"

\* a direct call of one of the four functions
Invoke ==
    /\ pc = "idle"
    /\ \E fn \in ApiFunctions, input \in InPaths, output \in OutPaths,
          algorithm \in ApiAlgorithms :
         /\ call' = [entry |-> fn, command |-> "", input |-> input,
                     output |-> output, option |-> <<algorithm>>,
                     algorithm |-> algorithm, cloud |-> <<>>]
         /\ IF fn \in {"compress_file", "decompress_file"}
            THEN /\ cur' = FileCall(fn, input, output, algorithm)
                 /\ pc' = "f_get"
                 /\ UNCHANGED frame
            ELSE /\ frame' = DirCall(fn, input, output, algorithm)
                 /\ pc' = "d_walk"
                 /\ UNCHANGED cur
    /\ UNCHANGED <<dirs, files, walk, handles, io, log, err, files0, dirs0>>

\* the program run from a command line: <command> input output [-a v]
InvokeMain ==
    /\ pc = "idle"
    /\ \E command \in Commands, input \in CommandLinePaths,
          output \in OutPaths, option \in Options :
         call' = [entry |-> "main", command |-> command, input |-> input,
                  output |-> output, option |-> option, algorithm |-> "",
                  cloud |-> <<>>]
    /\ pc' = "main_parse"
    /\ UNCHANGED <<dirs, files, frame, walk, cur, handles, io, log, err,
                   files0, dirs0>>

\* a direct call of one of the four cloud functions
InvokeCloud ==
    /\ pc = "idle"
    /\ \E fn \in CloudFunctions, file_path \in CloudPaths :
         /\ call' = [NoCall EXCEPT !.entry = fn, !.input = file_path]
         /\ cur' = CloudCall(fn, file_path)
         /\ pc' = CloudEntry(fn)
    /\ UNCHANGED <<dirs, files, frame, walk, handles, io, log, err,
                   files0, dirs0>>

\* the program run from a command line:
\* cloud <service> <direction> file bucket key
InvokeMainCloud ==
    /\ pc = "idle"
    /\ \E cloud \in CloudCommands, file_path \in CloudPaths :
         call' = [NoCall EXCEPT !.entry = "main", !.command = "cloud",
                                !.input = file_path, !.cloud = cloud]
    /\ pc' = "main_parse"
    /\ UNCHANGED <<dirs, files, frame, walk, cur, handles, io, log, err,
                   files0, dirs0>>

Next ==
    \/ Invoke
    \/ InvokeMain
    \/ InvokeCloud
    \/ InvokeMainCloud
    \/ main
    \/ compress_file
    \/ decompress_file
    \/ compress_directory
    \/ decompress_directory
    \/ upload_to_s3
    \/ download_from_s3
    \/ upload_to_gcs
    \/ download_from_gcs

Spec == Init /\ [][Next]_vars

----------------------------------------------------------------------------
(* Mirroring: one compress_directory call, for source and destination     *)
(* roots that are apart, equal, or one inside the other.                   *)

\* neither path is the other or leads to it
Disjoint(p, q) == ~IsUnder(p, q) /\ ~IsUnder(q, p)

\* /a/a/s/x is mirrored from /a into / as /a/s/x.compressed, and the
\* name of the mirror of /a/<LongName> is longer than NAME_MAX
MirrorCandFiles ==
    {<<"a", "x">>, <<"a", "x.compressed">>, <<"a", "s", "x.compressed">>,
     <<"a", "a", "s", "x">>, <<"a", LongName>>}

\* <<source_root, dest_root>>
MirrorRoots ==
    {<<<<"a">>, <<"b">>>>, <<<<"a", "s">>, <<"a", "a">>>>,
     <<<<"a">>, <<"a">>>>, <<<<"a">>, <<"a", "s">>>>, <<<<"a">>, Root>>}

\* the state in which compress_directory or decompress_directory has
\* just been called
Called(fn, input, output, algorithm) ==
    /\ call = [entry |-> fn, command |-> "", input |-> input,
               output |-> output, option |-> <<algorithm>>,
               algorithm |-> algorithm, cloud |-> <<>>]
    /\ frame = DirCall(fn, input, output, algorithm)
    /\ pc = "d_walk"
    /\ walk = NoWalk
    /\ cur = NoCur
    /\ handles = {}
    /\ io = <<>>
    /\ log = <<>>
    /\ err = "none"

InitMirror ==
    /\ files \in TreesOver(MirrorCandFiles, MaxFiles)
    /\ dirs = DirsOf(files)
    /\ files0 = files
    /\ dirs0 = dirs
    /\ \E roots \in MirrorRoots, algorithm \in Supported :
         Called("compress_directory", roots[1], roots[2], algorithm)

NextMirror ==
    \/ compress_directory
    \/ compress_file

SpecMirror == InitMirror /\ [][NextMirror]_vars

----------------------------------------------------------------------------
(* The round trip: compress_directory from A into B, then                  *)
(* decompress_directory from B into C with the same algorithm.             *)

TreeA == <<"a">>

\* C beside A and B, or B itself, or a name longer than NAME_MAX
RoundTripTargets == {<<"c">>, <<"b">>, <<TooLongName>>}

\* the source tree (/a/x.compressed/y is in a directory named like the
\* mirror of /a/x), and what /b and /c may hold beforehand
RoundTripCandFiles ==
    {<<"a", "x">>, <<"a", "s", "y">>, <<"a", "x.compressed", "y">>,
     <<"a", LongName>>, <<"b", "z.compressed">>, <<"c", "z">>}

\* <<B, the directories without files that are there beforehand>>: B
\* beside A and missing, B an empty directory inside A, and B or C with a
\* directory where the round trip of /a/x needs a file
RoundTripStarts ==
    {<<<<"b">>, {}>>,
     <<<<"a", "o">>, {<<"a", "o">>}>>,
     <<<<"b">>, {<<"b">>, <<"b", "x.compressed">>}>>,
     <<<<"b">>, {<<"c">>, <<"c", "x">>}>>}

InitRoundTrip ==
    /\ files \in TreesOver(RoundTripCandFiles, MaxFiles)
    /\ files0 = files
    /\ \E start \in RoundTripStarts, algorithm \in Supported :
         /\ dirs = DirsOf(files) \cup start[2]
         /\ Called("compress_directory", TreeA, start[1], algorithm)
    /\ dirs0 = dirs

\* the first call has returned: the second is made
InvokeDecompress ==
    /\ pc = "done"
    /\ call.entry = "compress_directory"
    /\ \E target \in RoundTripTargets :
         /\ call' = [call EXCEPT !.entry = "decompress_directory",
                                 !.input = call.output, !.output = target]
         /\ frame' = DirCall("decompress_directory", call.output, target,
                             call.algorithm)
    /\ walk' = NoWalk
    /\ pc' = "d_walk"
    /\ UNCHANGED <<dirs, files, cur, handles, io, log, err, files0, dirs0>>

NextRoundTrip ==
    \/ InvokeDecompress
    \/ compress_file
    \/ decompress_file
    \/ compress_directory
    \/ decompress_directory

SpecRoundTrip == InitRoundTrip /\ [][NextRoundTrip]_vars

----------------------------------------------------------------------------
(* Selection: one decompress_directory call.                               *)

\* /a/.compressed has the marker suffix for its whole name, and
\* /a/s.compressed is stripped to the name of the directory /a/s
SelectCandFiles ==
    CandFiles \cup {<<"a", ".compressed">>, <<"a", "s.compressed">>}

\* a destination beside the source, inside it, and one that cannot be
\* made: a name longer than NAME_MAX
SelectOutputs == {<<"b">>, <<"a", "s">>, <<"b", TooLongName>>}

\* directories without files that may be there beforehand
SelectEmptyDirs == {{}, {<<"b">>, <<"b", "x">>}}
SelectAlgorithms == {GZIP, ZLIB, "rar"}

\* <<destination, empty directories, algorithm>>: every combination of the
\* above, and a destination of PATH_MAX bytes
SelectStarts ==
    (SelectOutputs \X SelectEmptyDirs \X SelectAlgorithms)
        \cup {<<DeepPath, {}, GZIP>>}

InitSelect ==
    /\ files \in TreesOver(SelectCandFiles, MaxFiles)
    /\ files0 = files
    /\ \E start \in SelectStarts :
         /\ dirs = DirsOf(files) \cup start[2]
         /\ Called("decompress_directory", <<"a">>, start[1], start[3])
    /\ dirs0 = dirs

NextSelect ==
    \/ decompress_directory
    \/ decompress_file

SpecSelect == InitSelect /\ [][NextSelect]_vars

----------------------------------------------------------------------------
(* Vocabulary of the properties.                                           *)

Terminal == pc \in {"done", "raised"}

SupportedAlgorithm(a) ==
    /\ ~get_compression_function(a).raised
    /\ ~get_decompression_function(a).raised

\* decoding bytes with the algorithm's decompression function
Decoded(a, bytes) == Apply(get_decompression_function(a).value, bytes)

\* the bytes are a stream that the algorithm's decompression function
\* decodes (as far as the model determines it)
ValidStream(a, bytes) ==
    ~Decoded(a, bytes).raised /\ ~IsUndetermined(Decoded(a, bytes))

\* the regular files of tree f strictly below the directory top
FilesBelow(f, top) == {p \in DOMAIN f : Len(p) > Len(top) /\ IsUnder(p, top)}

HasMarker(name) == EndsWith(name, ".compressed")
HasStem(name) == Len(name) > Len(".compressed")
Stem(name) == SubSeq(name, 1, Len(name) - Len(".compressed"))

\* where the file p of the source tree src belongs in the tree dst: same
\* directories, marker suffix appended / stripped / name kept
CompressedImage(p, src, dst) ==
    dst \o SubSeq(p, Len(src) + 1, Len(p) - 1)
        \o <<Basename(p) \o ".compressed">>
StrippedImage(p, src, dst) ==
    dst \o SubSeq(p, Len(src) + 1, Len(p) - 1) \o <<Stem(Basename(p))>>
SameImage(p, src, dst) == dst \o SubSeq(p, Len(src) + 1, Len(p))

\* the path is within the file system's limits on names
Within(p) == ~PathTooLong(p) /\ \A k \in 1..Len(p) : Len(p[k]) <= NAME_MAX

\* the destination paths that the walk fn of the files of fs under src
\* builds in dst
Targets(fn, fs, src, dst) ==
    {Target(fn, dst, RelativeTo(Dirname(p), src), Basename(p)) :
        p \in {q \in FilesBelow(fs, src) : Eligible(fn, Basename(q))}}

FileFunctions == {"compress_file", "decompress_file"}
DirFunctions == {"compress_directory", "decompress_directory"}

\* In the tree fs, ds the path d is missing (with nothing but directories
\* above it) or is a directory that holds nothing.
Fresh(fs, ds, d) ==
    /\ \A q \in DOMAIN fs : ~IsUnder(q, d) /\ q \notin Ancestors(d)
    /\ \A q \in ds : IsUnder(q, d) => q = d

\* Under top, some file's name with the marker appended is the name of a
\* directory beside it that holds a file: the mirror of the one is a file
\* where the mirror of the other needs a directory.
MirrorClash(fs, top) ==
    \E p, q \in FilesBelow(fs, top) :
        /\ Len(q) > Len(p)
        /\ IsUnder(q, Append(Dirname(p), Basename(p) \o ".compressed"))

\* Under top, some marked file's stripped name is the name of a directory
\* beside it that holds a marked file.
StemClash(fs, top) ==
    \E p, q \in FilesBelow(fs, top) :
        /\ HasMarker(Basename(p))
        /\ HasStem(Basename(p))
        /\ HasMarker(Basename(q))
        /\ Len(q) > Len(p)
        /\ IsUnder(q, Append(Dirname(p), Stem(Basename(p))))

----------------------------------------------------------------------------
(* C1: directory mirroring (checked under SpecMirror).                     *)

C1_Mirrored ==
    \A p \in FilesBelow(files0, frame.input_path) :
        LET t == CompressedImage(p, frame.input_path, frame.output_path) IN
        /\ t \in DOMAIN files
        /\ Decoded(frame.algorithm, files[t]) = Returned(files0[p])

\* C1 as stated: when compress_directory has completed, every regular file
\* that was at relative path R under source_root has a file at dest_root/R
\* with ".compressed" appended to its name, in the same directories, and
\* decoding that file with the same algorithm gives the source file's
\* contents.
C1_MirrorAnyDestination ==
    (frame.fn = "compress_directory" /\ pc = "done") => C1_Mirrored

\* C1, amended: the same, for a source_root and a dest_root that are
\* apart: neither is the other, inside the other, or above it.
C1_MirrorDisjointRoots ==
    (/\ frame.fn = "compress_directory"
     /\ pc = "done"
     /\ Disjoint(frame.input_path, frame.output_path)) => C1_Mirrored

\* a completed mirror, between roots that are apart, of a tree with a file
\* at the top and a file in a subdirectory, one of them not empty
C1_Witness ==
    /\ frame.fn = "compress_directory"
    /\ pc = "done"
    /\ Disjoint(frame.input_path, frame.output_path)
    /\ \E p, q \in FilesBelow(files0, frame.input_path) :
         /\ Len(p) = Len(frame.input_path) + 1
         /\ Len(q) > Len(frame.input_path) + 1
         /\ files0[p] # <<>>

----------------------------------------------------------------------------
(* C2: the tree round trip (checked under SpecRoundTrip).                  *)

\* B and C of the round trip, once they are known
TreeB == IF call.entry = "compress_directory" THEN call.output ELSE call.input
TreeC == call.output

RoundTripDone == call.entry = "decompress_directory" /\ pc = "done"

C2_SameTree ==
    /\ \A p \in FilesBelow(files0, TreeA) :
         /\ SameImage(p, TreeA, TreeC) \in DOMAIN files
         /\ files[SameImage(p, TreeA, TreeC)] = files0[p]
    /\ \A q \in FilesBelow(files, TreeC) :
         \E p \in FilesBelow(files0, TreeA) : q = SameImage(p, TreeA, TreeC)

\* C2 as stated: compress_directory from A into B and decompress_directory
\* from B into C with the same algorithm go through, and C then holds, for
\* every regular file at R under A, a file at C/R with the same contents,
\* and no other files.
C2_RoundTripAnyTrees ==
    /\ err = "none"
    /\ RoundTripDone => C2_SameTree

\* what the amended C2 asks of A and B, and of C
C2_SourceAndMirrorApart ==
    /\ Disjoint(TreeA, TreeB)
    /\ Fresh(files0, dirs0, TreeB)
    /\ ~MirrorClash(files0, TreeA)
    /\ \A t \in Targets("compress_directory", files0, TreeA, TreeB) :
         Within(t)
C2_TargetApart ==
    /\ Disjoint(TreeB, TreeC)
    /\ Fresh(files0, dirs0, TreeC)
    /\ \A p \in FilesBelow(files0, TreeA) :
         Within(DecompressTarget(TreeC, RelativeTo(Dirname(p), TreeA),
                                 Basename(p) \o Suffix))

\* C2, amended: when B is apart from A and from C (neither is the other,
\* inside it or above it), B and C are each missing or an empty directory,
\* and no file of A has beside it a directory that holds a file and is
\* named like the file with ".compressed" appended, and every path the
\* two calls build for the files of A (under B with the suffix, under C
\* without) is within the file system's limits (no name longer than 255
\* bytes, no path of 4096 bytes or more), then neither call
\* raises, and when both have returned C holds exactly the files of A, at
\* the same relative paths and with the same contents.
C2_RoundTripApartFreshTrees ==
    /\ (call.entry = "compress_directory" /\ C2_SourceAndMirrorApart) =>
           err = "none"
    /\ (/\ call.entry = "decompress_directory"
        /\ C2_SourceAndMirrorApart
        /\ C2_TargetApart) =>
           /\ err = "none"
           /\ pc = "done" => C2_SameTree

\* the round trip of /a/x (not empty) and /a/s/y (empty) through /b and /c,
\* neither of which was there
C2_Witness ==
    /\ RoundTripDone
    /\ C2_SourceAndMirrorApart
    /\ C2_TargetApart
    /\ DOMAIN files0 = {<<"a", "x">>, <<"a", "s", "y">>}
    /\ files0[<<"a", "x">>] # <<>>
    /\ files0[<<"a", "s", "y">>] = <<>>

----------------------------------------------------------------------------
(* C3: decompression selectivity (checked under SpecSelect).               *)

\* the names under the source that end with ".compressed"
C3_Marked == {p \in FilesBelow(files0, frame.input_path) :
                 HasMarker(Basename(p))}

\* a supported algorithm, marked files that all hold valid streams, and a
\* destination outside the source that holds no files
C3_ValidIntoEmpty ==
    /\ frame.fn = "decompress_directory"
    /\ SupportedAlgorithm(frame.algorithm)
    /\ ~IsUnder(frame.output_path, frame.input_path)
    /\ frame.output_path \notin DOMAIN files0
    /\ FilesBelow(files0, frame.output_path) = {}
    /\ \A p \in C3_Marked : ValidStream(frame.algorithm, files0[p])

C3_ValidIntoFresh ==
    /\ C3_ValidIntoEmpty
    /\ Fresh(files0, dirs0, frame.output_path)
    /\ ~StemClash(files0, frame.input_path)
    /\ \A t \in Targets("decompress_directory", files0, frame.input_path,
                        frame.output_path) : Within(t)

----------------------------------------------------------------------------
(* C4: an unsupported algorithm fails before any file I/O.                 *)

\* the call has a file to transcode: a *_file call, or a *_directory call
\* on a tree that holds a file the walk hands to the transcoder
C4_HasWork ==
    \/ call.entry \in FileFunctions
    \/ /\ call.entry \in DirFunctions
       /\ \E p \in FilesBelow(files0, Resolve(call.input)) :
            call.entry = "compress_directory" \/ HasMarker(Basename(p))

\* C4 as stated: a call of one of the four functions (with a file to
\* transcode) and an algorithm outside {gzip, zlib, bz2, lzma} opens, reads
\* and writes no file, creates no directory, and ends with the
\* unsupported-algorithm error.
C4_UnsupportedFailsBeforeIO ==
    (/\ call.entry \in ApiFunctions
     /\ ~SupportedAlgorithm(call.algorithm)
     /\ C4_HasWork) =>
        /\ io = <<>>
        /\ dirs = dirs0
        /\ files = files0
        /\ pc # "done"
        /\ pc = "raised" => err = "ValueError"

----------------------------------------------------------------------------
(* C5: a nonexistent input path.                                           *)

\* C5 as stated: a compress or decompress invocation (with a supported
\* algorithm) whose input path is neither a file nor a directory ends with
\* the source-not-found error (main: with its error record) and produces
\* no file and no directory.
C5_MissingSourceIsAnError ==
    (/\ \/ call.entry \in ApiFunctions
        \/ call.entry = "main" /\ call.command \in Commands
     /\ Terminal
     /\ SupportedAlgorithm(call.algorithm)
     /\ ~IsFileIn(files0, dirs0, call.input)
     /\ ~IsDirIn(files0, dirs0, call.input))
    => /\ files = files0
       /\ dirs = dirs0
       /\ \/ err = "FileNotFoundError"
          \/ /\ call.entry = "main"
             /\ Len(log) = 1
             /\ log[1].level = "ERROR"

----------------------------------------------------------------------------
(* C6: the command line accepts only the four algorithm names.             *)

\* C6 as stated: main's compress / decompress dispatch is reached only
\* with an algorithm that get_compression_function and
\* get_decompression_function accept.
C6_DispatchOnlySupported ==
    (pc = "main_dispatch" /\ call.command \in Commands) =>
        SupportedAlgorithm(call.algorithm)

----------------------------------------------------------------------------
(* C7: the tree mapping is one-to-one.                                     *)

\* C7: within one compress_directory or decompress_directory walk, no two
\* files handed to the transcoder are the same source or have the same
\* destination, and no destination is opened for writing twice. Paths are
\* compared by the file they name ("<out>/./<name>" is "<out>/<name>").
C7_OneToOne ==
    LET opened == {i \in 1..Len(io) : io[i].op = "open_wb"}
        done == {i \in 1..Len(log) : log[i].fn \in FileFunctions}
        written == [i \in opened |-> Resolve(io[i].path)]
        source == [i \in done |-> Resolve(log[i].input_path)]
        target == [i \in done |-> Resolve(log[i].output_path)]
    IN frame.fn \in DirFunctions =>
        /\ \A i, j \in opened : i < j => written[i] # written[j]
        /\ \A i, j \in done :
             i < j => source[i] # source[j] /\ target[i] # target[j]
        /\ (pc \in {"f_open_out", "f_write"}) =>
             \A i \in done : target[i] # Resolve(cur.output_path)

\* a completed walk that wrote two files, one for a file of the source
\* root (at "<out>/./<name>"), then one for a file in a subdirectory
C7_Witness ==
    /\ frame.fn \in DirFunctions
    /\ pc = "done"
    /\ \E i, j \in 1..Len(io) :
         /\ i < j
         /\ io[i].op = "write"
         /\ io[j].op = "write"
         /\ Len(Resolve(io[i].path)) = Len(frame.output_path) + 1
         /\ Len(Resolve(io[j].path)) > Len(frame.output_path) + 1

----------------------------------------------------------------------------
(* C8: a walk aborts on the first failure.                                 *)

C8_Failed == frame.fn \in DirFunctions /\ err # "none"

C8_AbortedState ==
    C8_Failed =>
        /\ pc = "raised"
        /\ \A i \in 1..Len(log) :
             /\ log[i].fn \notin DirFunctions
             /\ log[i].fn \in FileFunctions =>
                    Resolve(log[i].output_path) \in DOMAIN files

\* C8: in both modes, once a file of the walk has failed the exception has
\* left the walk, nothing more happens (no later file is attempted), the
\* files written before are in place, and no summary record is logged.
C8_AbortOnFirstFailure ==
    /\ []C8_AbortedState
    /\ [][C8_Failed => UNCHANGED vars]_vars

\* a walk that failed in the transcoder while a file of the listing was
\* still to come
C8_Witness ==
    /\ C8_Failed
    /\ cur.fn \in FileFunctions
    /\ walk.files # {}

----------------------------------------------------------------------------
(* C9: a failed single-file call leaves the destination alone.             *)

C9_SingleFile == frame.fn = "none" /\ cur.fn \in FileFunctions

C9_BadBytes ==
    /\ cur.fn = "decompress_file"
    /\ cur.input_path \in DOMAIN files0
    /\ Decoded(cur.algorithm, files0[cur.input_path]).raised

C9_NoSource == cur.input_path \notin DOMAIN files0

\* C9: when decompress_file's source is not a valid stream of the
\* algorithm, or the source of compress_file or decompress_file cannot be
\* opened, the call raises (the decoder's error, or open's), the
\* destination is never created, truncated or written, and no record is
\* logged.
C9_FailureLeavesDestination ==
    (C9_SingleFile /\ SupportedAlgorithm(cur.algorithm)) =>
        /\ C9_BadBytes =>
             /\ files = files0
             /\ dirs = dirs0
             /\ \A i \in 1..Len(log) : log[i].fn \notin FileFunctions
             /\ pc # "done"
             /\ pc = "raised" =>
                  err = Decoded(cur.algorithm, files0[cur.input_path]).exc
        /\ C9_NoSource =>
             /\ files = files0
             /\ dirs = dirs0
             /\ \A i \in 1..Len(log) : log[i].fn \notin FileFunctions
             /\ pc # "done"
             /\ pc = "raised" =>
                  /\ OpenRead(cur.input_path).raised
                  /\ err = OpenRead(cur.input_path).exc

\* decompress_file has failed on bad bytes and its destination is a file
\* that existed, with contents
C9_Witness ==
    /\ C9_SingleFile
    /\ SupportedAlgorithm(cur.algorithm)
    /\ C9_BadBytes
    /\ pc = "raised"
    /\ cur.output_path \in DOMAIN files0
    /\ files0[cur.output_path] # <<>>

----------------------------------------------------------------------------
(* C10: file handles.                                                      *)

\* C10 as stated: a handle is held for its single read or write only, so
\* the source handle is not open while the destination is open, and no
\* handle is open once the call has returned or raised.
C10_OneHandleAtATime ==
    /\ Cardinality(handles) <= 1
    /\ Terminal => handles = {}

============================================================================
